---- MODULE Spec2Model ----
(***************************************************************************)
(* The scheduling and resilience core of aireer-cli: the Priority Store    *)
(* and Selector of RoutineManager, the Backoff Engine of RateLimitHandler  *)
(* and the cycle loop of startAutonomousMode with its dispatches.          *)
(*                                                                         *)
(* Time is in milliseconds (Date.now()).  One action is one run of the     *)
(* event loop: the code between two awaits runs to completion, and the     *)
(* SIGINT handler can only run while the program waits.                    *)
(*                                                                         *)
(* Fixed point: weight is kept in tenths, successRate in 1/RateScale, the  *)
(* recency boost in thousandths, Math.random() in 1/DrawSteps.             *)
(***************************************************************************)
EXTENDS Integers, Sequences, FiniteSets, TLC

VARIABLES
  config,             \* RoutineManager.config: priorities and globalSettings
  disk,               \* content of .aireer-priorities.json
  now,                \* Date.now()
  options,            \* AutonomousOptions: interval, maxExecutionsPerCycle, useGeminiDirect
  phase,              \* where startAutonomousMode is
  isRunning,
  cycleCount,
  rateLimitErrorCount,
  adaptiveInterval,
  sleepMs,            \* argument of the pending sleep()
  activeRoutines,     \* the list fetched in this cycle
  executionsThisCycle,\* the batch
  disp,               \* one executeRoutine call per batch member
  fetchError,         \* the error the catalog request of this cycle failed with
  cycleErrorType,     \* errorType the cycle's catch block logged in this cycle
  cancelledFrom,      \* the phase the SIGINT handler ran in
  diskWritable,       \* whether the working directory accepts writes of the document
  retry,              \* a call of RateLimitHandler.executeWithRetry: its frame and what it did
  suggested,          \* a call of RateLimitHandler.suggestOptimalInterval: arguments and result
  command             \* the last call of a RoutineManager method on the store: arguments and result

vars == <<config, disk, now, options, phase, isRunning, cycleCount,
          rateLimitErrorCount, adaptiveInterval, sleepMs, activeRoutines,
          executionsThisCycle, disp,
          fetchError, cycleErrorType, cancelledFrom, diskWritable,
          retry, suggested, command>>

\* the variables of the cycle loop
loopVars == <<phase, isRunning, cycleCount, rateLimitErrorCount, adaptiveInterval,
              sleepMs, activeRoutines, executionsThisCycle, disp, fetchError,
              cycleErrorType, cancelledFrom, options>>

None == "none"
\* lastExecuted of an entry that never ran
Never == -1

----------------------------------------------------------------------------
\* Bounds of the model

MaxCycles == 2

\* the time, in ms, between two calls of the selector in the batch-building
\* loop: the provisional record writes the document in between
ElapsedChoices == {0, 1}

\* the catalog lists the remote service answers with
Catalogs == {<<"r1">>, <<"r1", "r2">>}

IntervalChoices == {1}
MaxExecutionsChoices == {2}

CooldownChoices == {0, 1}

\* Math.random() is u / DrawSteps for u in 0..DrawSteps-1
DrawSteps == 4

RateScale == 5 * 5 * 5 * 5 * 5

----------------------------------------------------------------------------
\* Errors: the fields the classifiers read.  message is the set of the
\* markers the message text contains.

\* An absent number (status, retryAfter) is 0, an absent string is None.
Err(status, code, respError, retryAfter, message) ==
  [status |-> status, code |-> code, respError |-> respError,
   retryAfter |-> retryAfter, message |-> message]

NoError == Err(0, None, None, 0, {"no error"})

\* ApiClient's response interceptor rethrows every failure as a plain Error
\* that carries only a message
HttpError(status, text) == Err(0, None, None, 0, {status} \cup text)
ConnectError == Err(0, None, None, 0, {"connect"})

\* the TypeError of `for (const routine of routines)` over data that is no
\* list: "routines is not iterable"
TypeError == Err(0, None, None, 0, {"routines", "not iterable"})

ApiErrors == {HttpError("429", {"rate limit"}), HttpError("401", {}), ConnectError}

Range(s) == {s[i] : i \in 1..Len(s)}

Min(a, b) == IF a < b THEN a ELSE b
Max(a, b) == IF a > b THEN a ELSE b


----------------------------------------------------------------------------
\* Program constants

MsPerSecond == 1000
DefaultPriority == 5
\* weight 1.0, in tenths
DefaultWeight == 10
\* the 0.1 floor of a selection weight and the weight 1 of a routine that
\* has no entry, in units of 1 / (10 * RateScale * 1000)
WeightUnit == 10 * RateScale * 1000
MinimumWeight == WeightUnit \div 10
\* one hour of idleness adds 0.1 to the boost: 1/1000 every 36000 ms
BoostStepMs == 36000
MaxBoost == 3000

----------------------------------------------------------------------------
\* Priority Store (RoutineManager)

\* Array.prototype.find over config.priorities: the index of the first
\* entry of the routine, 0 when there is none
RECURSIVE FindFrom(_, _, _)
FindFrom(priorities, routineId, i) ==
  IF i > Len(priorities) THEN 0
  ELSE IF priorities[i].routineId = routineId THEN i
  ELSE FindFrom(priorities, routineId, i + 1)

FindPriority(priorities, routineId) == FindFrom(priorities, routineId, 1)

NewPriority(routineId) ==
  [routineId |-> routineId, priority |-> DefaultPriority, weight |-> DefaultWeight,
   lastExecuted |-> Never, executionCount |-> 0, successRate |-> RateScale]

DefaultConfig(cooldownPeriod) ==
  [priorities |-> <<>>,
   globalSettings |-> [maxExecutionsPerCycle |-> 3,
                       cooldownPeriod |-> cooldownPeriod,
                       minimumInterval |-> 60]]

\* parseInt and parseFloat of text that is no number
NaN == -999

\* the null of a JSON document
Null == -998

\* JSON.stringify(this.config, null, 2): numbers and dates are written as
\* they are, NaN is written as null
Stringify(cfg) ==
  [cfg EXCEPT !.priorities =
     [k \in 1..Len(@) |->
        [@[k] EXCEPT !.priority = IF @ = NaN THEN Null ELSE @,
                     !.weight = IF @ = NaN THEN Null ELSE @]]]

\* a save whose failure is not seen: the document follows in any case
saveConfig_Unfailing(cfg, document, writeOk) == Stringify(cfg)

\* saveConfig: the write replaces the whole document; a failed write is
\* caught and leaves the document as it was
saveConfig(cfg, document, writeOk) == IF writeOk THEN Stringify(cfg) ELSE document

\* the loop that adds without looking for an existing entry
RECURSIVE AddNewRoutines_NoFind(_, _)
AddNewRoutines_NoFind(priorities, routines) ==
  IF routines = <<>> THEN priorities
  ELSE AddNewRoutines_NoFind(Append(priorities, NewPriority(Head(routines))),
                             Tail(routines))

RECURSIVE AddNewRoutines(_, _)
AddNewRoutines(priorities, routines) ==
  IF routines = <<>> THEN priorities
  ELSE AddNewRoutines(
         IF FindPriority(priorities, Head(routines)) = 0
           THEN Append(priorities, NewPriority(Head(routines)))
           ELSE priorities,
         Tail(routines))

\* a filter that keeps every entry
RemoveInactive_KeepsAll(priorities, routines) == priorities

RemoveInactive(priorities, routines) ==
  SelectSeq(priorities, LAMBDA p : p.routineId \in Range(routines))

\* a reconcile that builds the entries anew from the list
updateRoutinePriorities_Rebuilds(cfg, routines) ==
  [cfg EXCEPT !.priorities = RemoveInactive(AddNewRoutines(<<>>, routines), routines)]

updateRoutinePriorities(cfg, routines) ==
  [cfg EXCEPT !.priorities = RemoveInactive(AddNewRoutines(@, routines), routines)]

\* an average that adds alpha for a success and forgets nothing
UpdatedSuccessRate_Additive(successRate, success) ==
  (IF success THEN RateScale ELSE 0) \div 5 + successRate

\* the exponential moving average with alpha = 0.2
UpdatedSuccessRate(successRate, success) ==
  ((IF success THEN RateScale ELSE 0) + 4 * successRate) \div 5

\* a record that leaves executionCount alone
recordExecution_NoCount(cfg, routineId, success, t) ==
  LET i == FindPriority(cfg.priorities, routineId) IN
  IF i = 0 THEN cfg
  ELSE [cfg EXCEPT !.priorities[i] =
          [@ EXCEPT !.lastExecuted = t,
                    !.successRate = UpdatedSuccessRate(@, success)]]

\* a record written from a copy of the store that knew only its own entry:
\* the other entries go back to what a new entry holds
recordExecution_LosesSiblings(cfg, routineId, success, t) ==
  LET i == FindPriority(cfg.priorities, routineId) IN
  IF i = 0 THEN cfg
  ELSE [cfg EXCEPT !.priorities =
          [k \in 1..Len(cfg.priorities) |->
             IF k = i
               THEN [cfg.priorities[k] EXCEPT !.lastExecuted = t,
                                              !.executionCount = @ + 1,
                                              !.successRate = UpdatedSuccessRate(@, success)]
               ELSE NewPriority(cfg.priorities[k].routineId)]]

\* a record that also puts the entry's priority back to the default
recordExecution_ResetsPriority(cfg, routineId, success, t) ==
  LET i == FindPriority(cfg.priorities, routineId) IN
  IF i = 0 THEN cfg
  ELSE [cfg EXCEPT !.priorities[i] =
          [@ EXCEPT !.priority = DefaultPriority,
                    !.lastExecuted = t,
                    !.executionCount = @ + 1,
                    !.successRate = UpdatedSuccessRate(@, success)]]

recordExecution(cfg, routineId, success, t) ==
  LET i == FindPriority(cfg.priorities, routineId) IN
  IF i = 0 THEN cfg
  ELSE [cfg EXCEPT !.priorities[i] =
          [@ EXCEPT !.lastExecuted = t,
                    !.executionCount = @ + 1,
                    !.successRate = UpdatedSuccessRate(@, success)]]

\* a recordExecution that writes the document in any case
RecordSaves_Always(cfg, routineId) == TRUE

\* whether recordExecution writes the document: only when the entry exists
RecordSaves(cfg, routineId) == FindPriority(cfg.priorities, routineId) # 0

\* Math.max(lo, Math.min(hi, value)): NaN passes through both
Clamp(lo, hi, value) == IF value = NaN THEN NaN ELSE Max(lo, Min(hi, value))

\* whether adjustPriority and adjustWeight find the entry: their return value
AdjustFinds(cfg, routineId) == FindPriority(cfg.priorities, routineId) # 0

adjustPriority(cfg, routineId, newPriority) ==
  LET i == FindPriority(cfg.priorities, routineId) IN
  IF i = 0 THEN cfg
  ELSE [cfg EXCEPT !.priorities[i].priority = Clamp(1, 10, newPriority)]

\* weights are in tenths: 0.1 is 1 and 5.0 is 50
adjustWeight(cfg, routineId, newWeight) ==
  LET i == FindPriority(cfg.priorities, routineId) IN
  IF i = 0 THEN cfg
  ELSE [cfg EXCEPT !.priorities[i].weight = Clamp(1, 50, newWeight)]

----------------------------------------------------------------------------
\* Selector (RoutineManager.selectRoutineToExecute)

\* the filter with >= in the place of >
OutOfCooldown_AtBoundary(cfg, routineId, currentTime) ==
  LET i == FindPriority(cfg.priorities, routineId) IN
  IF i = 0 THEN TRUE
  ELSE IF cfg.priorities[i].lastExecuted = Never THEN TRUE
  ELSE (currentTime - cfg.priorities[i].lastExecuted)
         >= cfg.globalSettings.cooldownPeriod * MsPerSecond

\* the filter callback: TRUE keeps the routine
OutOfCooldown(cfg, routineId, currentTime) ==
  LET i == FindPriority(cfg.priorities, routineId) IN
  IF i = 0 THEN TRUE
  ELSE IF cfg.priorities[i].lastExecuted = Never THEN TRUE
  ELSE (currentTime - cfg.priorities[i].lastExecuted)
         > cfg.globalSettings.cooldownPeriod * MsPerSecond

\* a filter that keeps the routines in cooldown too
FilterAvailable_KeepsAll(cfg, routines, currentTime) == routines

FilterAvailable(cfg, routines, currentTime) ==
  SelectSeq(routines, LAMBDA r : OutOfCooldown(cfg, r, currentTime))

RecencyBoost(lastExecuted, currentTime) ==
  Min(1000 + (currentTime - lastExecuted) \div BoostStepMs, MaxBoost)

\* a weight that looks at nothing of the entry
SelectionWeight_Flat(cfg, routineId, currentTime) == WeightUnit

SelectionWeight(cfg, routineId, currentTime) ==
  LET i == FindPriority(cfg.priorities, routineId) IN
  IF i = 0 THEN WeightUnit
  ELSE LET p == cfg.priorities[i]
           base == p.priority * p.weight * p.successRate
           weight == IF p.lastExecuted # Never
                       THEN (base * RecencyBoost(p.lastExecuted, currentTime))
                       ELSE base * 1000
       IN Max(weight, MinimumWeight)

\* a total that adds the floor to every weight once more
RECURSIVE SumWeights_PlusFloor(_, _, _)
SumWeights_PlusFloor(cfg, available, currentTime) ==
  IF available = <<>> THEN 0
  ELSE SelectionWeight(cfg, Head(available), currentTime) + MinimumWeight
         + SumWeights_PlusFloor(cfg, Tail(available), currentTime)

RECURSIVE SumWeights(_, _, _)
SumWeights(cfg, available, currentTime) ==
  IF available = <<>> THEN 0
  ELSE SelectionWeight(cfg, Head(available), currentTime)
         + SumWeights(cfg, Tail(available), currentTime)

\* the walk over the cumulative weights: random = totalWeight * u / DrawSteps,
\* so random <= currentWeight is totalWeight * u <= DrawSteps * currentWeight;
\* past the end, the fallback returns the last routine
RECURSIVE WalkWeights(_, _, _, _, _, _)
WalkWeights(cfg, available, currentTime, i, currentWeight, scaledRandom) ==
  IF i > Len(available) THEN Len(available)
  ELSE LET w == currentWeight + SelectionWeight(cfg, available[i], currentTime) IN
       IF scaledRandom <= DrawSteps * w THEN i
       ELSE WalkWeights(cfg, available, currentTime, i + 1, w, scaledRandom)

\* `random <= currentWeight` for random = totalWeight * u / steps, that is
\* totalWeight * u <= steps * currentWeight, computed without a product
\* beyond 32 bits
RandomAtMost(totalWeight, u, steps, currentWeight) ==
  u * (totalWeight \div steps) + (u * (totalWeight % steps) + steps - 1) \div steps
    <= currentWeight

\* the for loop of the draw on its own, for a draw in 1/steps: the index
\* it returns at, 0 when it ends without returning
RECURSIVE WalkLoop(_, _, _, _, _, _, _, _)
WalkLoop(cfg, available, currentTime, i, currentWeight, totalWeight, u, steps) ==
  IF i > Len(available) THEN 0
  ELSE LET w == currentWeight + SelectionWeight(cfg, available[i], currentTime) IN
       IF RandomAtMost(totalWeight, u, steps, w) THEN i
       ELSE WalkLoop(cfg, available, currentTime, i + 1, w, totalWeight, u, steps)

\* selectRoutineToExecute for a draw u in 1/steps: the routine returned and
\* whether the statement after the loop returned it
SelectWithDraw(cfg, routines, currentTime, u, steps) ==
  LET available == FilterAvailable(cfg, routines, currentTime) IN
  IF routines = <<>> \/ available = <<>> THEN [routine |-> None, fallback |-> FALSE]
  ELSE LET k == WalkLoop(cfg, available, currentTime, 1, 0,
                         SumWeights(cfg, available, currentTime), u, steps)
       IN [routine |-> available[IF k = 0 THEN Len(available) ELSE k],
           fallback |-> k = 0]

\* u is the draw of Math.random(), in 1/DrawSteps
selectRoutineToExecute(cfg, routines, currentTime, u) ==
  LET available == FilterAvailable(cfg, routines, currentTime) IN
  IF routines = <<>> \/ available = <<>> THEN None
  ELSE available[WalkWeights(cfg, available, currentTime, 1, 0,
                             SumWeights(cfg, available, currentTime) * u)]

----------------------------------------------------------------------------
\* Backoff Engine (RateLimitHandler)

defaultOptions ==
  [maxRetries |-> 3, baseDelay |-> 1000, maxDelay |-> 60000, backoffMultiplier |-> 2]

\* the options both call sites of executeRoutine pass
DispatchRetryOptions == [defaultOptions EXCEPT !.maxRetries = 2, !.baseDelay = 2000]

\* Math.random() of the jitter is j / JitterSteps for j in 0..JitterSteps-1
JitterSteps == 2

\* String.prototype.toLowerCase on the markers of a message
LowerCase(marker) ==
  CASE marker = "Rate Limit" -> "rate limit"
    [] marker = "Quota Exceeded" -> "quota exceeded"
    [] marker = "Too Many Requests" -> "too many requests"
    [] OTHER -> marker

\* a classifier that takes every failure for a rate limit
isRateLimitError_AnyFailure(error) == error # NoError

\* code "429" stands for the number 429
isRateLimitError(error) ==
  \/ error.status = 429
  \/ error.code = "429"
  \/ error.respError = "RATE_LIMIT_EXCEEDED"
  \/ {LowerCase(m) : m \in error.message}
       \cap {"rate limit", "quota exceeded", "too many requests", "429"} # {}

RECURSIVE Pow(_, _)
Pow(b, n) == IF n = 0 THEN 1 ELSE b * Pow(b, n - 1)

\* the delay without the cap of Math.min
calculateDelay_Uncapped(attempt, retryConfig, error, j) ==
  LET baseDelay == IF error.retryAfter # 0
                     THEN Max(error.retryAfter * 1000, retryConfig.baseDelay)
                     ELSE retryConfig.baseDelay
      exponentialDelay == baseDelay * Pow(retryConfig.backoffMultiplier, attempt)
  IN exponentialDelay + (j * exponentialDelay) \div (10 * JitterSteps)

\* a jitter of up to three times the exponential term
calculateDelay_WideJitter(attempt, retryConfig, error, j) ==
  LET baseDelay == IF error.retryAfter # 0
                     THEN Max(error.retryAfter * 1000, retryConfig.baseDelay)
                     ELSE retryConfig.baseDelay
      exponentialDelay == baseDelay * Pow(retryConfig.backoffMultiplier, attempt)
  IN Min(exponentialDelay + (j * 3 * exponentialDelay) \div JitterSteps,
         retryConfig.maxDelay)

\* a delay that takes the hint for its base whenever there is one
calculateDelay_HintOnly(attempt, retryConfig, error, j) ==
  LET baseDelay == IF error.retryAfter # 0
                     THEN error.retryAfter * 1000
                     ELSE retryConfig.baseDelay
      exponentialDelay == baseDelay * Pow(retryConfig.backoffMultiplier, attempt)
      jitter == (j * exponentialDelay) \div (10 * JitterSteps)
  IN Min(exponentialDelay + jitter, retryConfig.maxDelay)

calculateDelay(attempt, retryConfig, error, j) ==
  LET baseDelay == IF error.retryAfter # 0
                     THEN Max(error.retryAfter * 1000, retryConfig.baseDelay)
                     ELSE retryConfig.baseDelay
      exponentialDelay == baseDelay * Pow(retryConfig.backoffMultiplier, attempt)
      jitter == (j * exponentialDelay) \div (10 * JitterSteps)
  IN Min(exponentialDelay + jitter, retryConfig.maxDelay)

\* a loop that never gives up on a rate limit
RetryDecision_NoLimit(result, attempt, retryConfig) ==
  IF ~result.thrown THEN "return"
  ELSE IF ~isRateLimitError(result.error) THEN "throw"
  ELSE "retry"

\* what one turn of executeWithRetry's loop does with the operation's result
RetryDecision(result, attempt, retryConfig) ==
  IF ~result.thrown THEN "return"
  ELSE IF ~isRateLimitError(result.error) THEN "throw"
  ELSE IF attempt = retryConfig.maxRetries THEN "throw"
  ELSE "retry"

\* the multiplier without its cap of 5
suggestOptimalInterval_NoCap(errorCount, currentInterval) ==
  IF errorCount = 0 THEN currentInterval
  ELSE (currentInterval * (4 + errorCount)) \div 2

suggestOptimalInterval(errorCount, currentInterval) ==
  IF errorCount = 0 THEN currentInterval
  ELSE (currentInterval * Min(4 + errorCount, 10)) \div 2


----------------------------------------------------------------------------
\* Routine catalog (RoutineManager.fetchActiveRoutines over ApiClient.get)

\* what GET /api/routines?active=true ends with: a body whose data is a list,
\* a body without data, a body whose data is no list, or a failure
FetchResponses ==
  {[kind |-> "data", data |-> c, error |-> NoError] : c \in Catalogs}
    \cup {[kind |-> k, data |-> <<>>, error |-> NoError] : k \in {"nodata", "malformed"}}
    \cup {[kind |-> "error", data |-> <<>>, error |-> e] : e \in ApiErrors}

NoFetch == [kind |-> "nodata", data |-> <<>>, error |-> NoError]

\* the request without the catch: a failure reaches the caller
fetchActiveRoutines_Rethrows(resp) ==
  [thrown |-> resp.kind = "error", error |-> resp.error,
   iterable |-> resp.kind # "malformed",
   items |-> IF resp.kind = "data" THEN resp.data ELSE <<>>]

\* a request whose failure is answered with a list kept from before
fetchActiveRoutines_Cached(resp) ==
  [thrown |-> FALSE, error |-> NoError,
   iterable |-> resp.kind # "malformed",
   items |-> IF resp.kind = "data" THEN resp.data
             ELSE IF resp.kind = "error" THEN <<"r1">> ELSE <<>>]

\* every failure of the request is caught and answered with the empty list;
\* data that is no list is handed on as it is
fetchActiveRoutines(resp) ==
  [thrown |-> FALSE, error |-> NoError,
   iterable |-> resp.kind # "malformed",
   items |-> IF resp.kind = "data" THEN resp.data ELSE <<>>]

----------------------------------------------------------------------------
\* Cycle Orchestrator (startAutonomousMode)

\* the outcome of a write of the document
WriteOutcomes == {diskWritable}

AwaitPhases == {"Idle", "FetchingRoutines", "Dispatching", "Sleeping"}

StatsEveryCycles == 5

\* a cycle that goes on with an empty list
EmptyCatalog_GoesOn(items) == FALSE

\* `activeRoutines.length === 0`: the cycle sleeps and starts over
EmptyCatalog(items) == Len(items) = 0

\* the catch block of the cycle
isRateLimitCycle(error) ==
  \/ error.respError = "RATE_LIMIT_EXCEEDED"
  \/ error.status = 429
  \/ "rate limit" \in error.message

\* a catch block that rethrows what is no rate limit
cycleCatch_Rethrows(error, errorCount, interval) ==
  [errorType |-> IF isRateLimitCycle(error) THEN "RATE_LIMIT_ERROR" ELSE "UNKNOWN_ERROR",
   rateLimitErrorCount |-> IF isRateLimitCycle(error) THEN errorCount + 1 ELSE errorCount,
   adaptiveInterval |-> IF isRateLimitCycle(error)
                          THEN suggestOptimalInterval(errorCount + 1, interval)
                          ELSE interval,
   propagated |-> ~isRateLimitCycle(error)]

cycleCatch(error, errorCount, interval) ==
  IF isRateLimitCycle(error)
    THEN [errorType |-> "RATE_LIMIT_ERROR",
          rateLimitErrorCount |-> errorCount + 1,
          adaptiveInterval |-> suggestOptimalInterval(errorCount + 1, interval),
          propagated |-> FALSE]
    ELSE [errorType |-> IF error.code \in {"ECONNREFUSED", "ETIMEDOUT"} THEN "NETWORK_ERROR"
                        ELSE IF error.message \cap {"routines", "API"} # {} THEN "LLM_API_ERROR"
                        ELSE "UNKNOWN_ERROR",
          rateLimitErrorCount |-> errorCount,
          adaptiveInterval |-> interval,
          propagated |-> FALSE]

\* a handler that only clears isRunning
SigintExits_OnlyFlag == FALSE

\* the SIGINT handler ends the process
SigintExits == TRUE

\* Promise.race in the place of Promise.allSettled
BatchSettled_Race(d) == \E i \in DOMAIN d : d[i].st = "settled"

\* await Promise.allSettled(executionPromises)
BatchSettled(d) == \A i \in DOMAIN d : d[i].st = "settled"

\* `if (isRunning) await sleep(ms)`, then the loop condition
SleepIfRunning(ms) ==
  IF isRunning
    THEN phase' = "Sleeping" /\ sleepMs' = ms
    ELSE phase' = "Returned" /\ sleepMs' = 0

\* the block-scoped variables of a turn of the loop end with it
EndOfTurn ==
  /\ activeRoutines' = <<>>
  /\ executionsThisCycle' = <<>>

\* the catch block and the sleep after it
CatchCycleError(error) ==
  LET c == cycleCatch(error, rateLimitErrorCount, adaptiveInterval) IN
  /\ cycleErrorType' = c.errorType
  /\ rateLimitErrorCount' = c.rateLimitErrorCount
  /\ adaptiveInterval' = c.adaptiveInterval
  /\ IF c.propagated
       THEN phase' = "Crashed" /\ sleepMs' = 0
       ELSE SleepIfRunning(c.adaptiveInterval * MsPerSecond)

\* the end of the try block: the statistics of every fifth cycle (a catalog
\* request again, whose answer is mapped over), the reset and the sleep
FinishCycle ==
  \E stats \in IF cycleCount % StatsEveryCycles = 0 THEN FetchResponses ELSE {NoFetch} :
    IF ~fetchActiveRoutines(stats).iterable
      THEN CatchCycleError(TypeError)
      ELSE /\ rateLimitErrorCount' = 0
           /\ adaptiveInterval' = options.interval
           /\ SleepIfRunning(options.interval * MsPerSecond)
           /\ UNCHANGED cycleErrorType

----------------------------------------------------------------------------
\* Execution pipeline (executeRoutine)

BackendErrors == {HttpError("429", {"Too Many Requests"})}

\* what the generation backend ends a request with: JSON text, text that
\* holds no JSON, nothing, or a failure (a timeout of ApiClient is one)
BackendOutcomes ==
  {[kind |-> k, error |-> NoError] : k \in {"json", "text", "empty"}}
    \cup {[kind |-> "error", error |-> e] : e \in BackendErrors}

\* the operation of the API mode: every failure of the request is caught
\* and answered with content null
getLLMResponseFromAPI(out) ==
  [thrown |-> FALSE, error |-> NoError,
   content |-> IF out.kind \in {"json", "text"} THEN out.kind ELSE None]

\* the operation of the Gemini mode: every failure is caught and answered
\* with content null
generateContent(out) ==
  [thrown |-> FALSE, error |-> NoError,
   content |-> IF out.kind \in {"json", "text"} THEN out.kind ELSE None]

NoResponseError == Err(0, None, None, 0, {"LLM API"})
NoJsonError == Err(0, None, None, 0, {"JSON"})

parseJSONResponse(content) == IF content = "json" THEN "json" ELSE None

\* executeFileOperation catches the failure of the file or command operation
executeFileOperation(fileOk) == [thrown |-> FALSE, error |-> NoError]

\* the error type the catch block of executeRoutine logs
dispatchErrorType(error) ==
  IF error.respError = "RATE_LIMIT_EXCEEDED" \/ error.status = 429 THEN "RATE_LIMIT_ERROR"
  ELSE IF error.message \cap {"LLM API", "generate"} # {} THEN "LLM_API_ERROR"
  ELSE IF error.code \in {"ECONNREFUSED", "ETIMEDOUT"} THEN "NETWORK_ERROR"
  ELSE IF error.message \cap {"file"} # {} THEN "FILE_OPERATION_ERROR"
  ELSE "ROUTINE_EXECUTION_ERROR"

\* a finally that records every dispatch as a success
executeRoutineOutcome_AlwaysSuccess(result, decision, fileOk) ==
  [error |-> NoError, errorType |-> None, success |-> TRUE]

\* the try, catch and finally of executeRoutine once executeWithRetry has
\* returned `result` or thrown (decision "throw"): the error caught, the
\* error type logged and the success that finally records
executeRoutineOutcome(result, decision, fileOk) ==
  LET error ==
        IF decision = "throw" THEN result.error
        ELSE IF result.content = None THEN NoResponseError
        ELSE IF parseJSONResponse(result.content) = None THEN NoJsonError
        ELSE executeFileOperation(fileOk).error
  IN [error |-> error,
      errorType |-> IF error = NoError THEN None ELSE dispatchErrorType(error),
      success |-> error = NoError]

NewDispatch(routineId) ==
  [routineId |-> routineId, st |-> "calling", attempt |-> 0, calls |-> 0,
   reply |-> None, errorType |-> None, success |-> FALSE]

\* no call of executeWithRetry, of suggestOptimalInterval or of a store
\* method is being followed
NoRetry == [status |-> "idle"]
NoSuggestion == [status |-> "idle"]
NoCommand == [op |-> "none"]

\* the cycle loop before it starts, with the default document; the
\* specifications that follow one call on its own keep it there
LoopAtRest ==
  /\ config = DefaultConfig(300)
  /\ disk = config
  /\ now = 0
  /\ diskWritable = TRUE
  /\ options = [interval |-> 60, maxExecutionsPerCycle |-> 3, useGeminiDirect |-> FALSE]
  /\ phase = "Idle"
  /\ isRunning = TRUE
  /\ cycleCount = 0
  /\ rateLimitErrorCount = 0
  /\ adaptiveInterval = options.interval
  /\ sleepMs = 0
  /\ activeRoutines = <<>>
  /\ executionsThisCycle = <<>>
  /\ disp = <<>>
  /\ fetchError = NoError
  /\ cycleErrorType = None
  /\ cancelledFrom = None

----------------------------------------------------------------------------
\* The state after construction: the configuration is the document of the
\* working directory, the startup refresh is awaited

Init ==
  /\ \E cooldownPeriod \in CooldownChoices : config = DefaultConfig(cooldownPeriod)
  /\ disk = config
  /\ now = 0
  /\ options \in [interval : IntervalChoices,
                  maxExecutionsPerCycle : MaxExecutionsChoices,
                  useGeminiDirect : BOOLEAN]
  /\ phase = "Idle"
  /\ isRunning = TRUE
  /\ cycleCount = 0
  /\ rateLimitErrorCount = 0
  /\ adaptiveInterval = options.interval
  /\ sleepMs = 0
  /\ activeRoutines = <<>>
  /\ executionsThisCycle = <<>>
  /\ disp = <<>>
  /\ fetchError = NoError
  /\ cycleErrorType = None
  /\ cancelledFrom = None
  /\ diskWritable \in BOOLEAN
  /\ retry = NoRetry
  /\ suggested = NoSuggestion
  /\ command = NoCommand

\* process.on('SIGINT'): runs whenever the program waits.  process.exit
\* ends the process: its memory is gone, the document and the clock stay
Sigint ==
  /\ phase \in AwaitPhases
  /\ isRunning
  /\ isRunning' = FALSE
  /\ cancelledFrom' = phase
  /\ IF SigintExits
       THEN /\ phase' = "Cancelled"
            /\ config' = DefaultConfig(config.globalSettings.cooldownPeriod)
            /\ cycleCount' = 0
            /\ rateLimitErrorCount' = 0
            /\ adaptiveInterval' = options.interval
            /\ sleepMs' = 0
            /\ activeRoutines' = <<>>
            /\ executionsThisCycle' = <<>>
            /\ disp' = <<>>
            /\ fetchError' = NoError
            /\ cycleErrorType' = None
       ELSE UNCHANGED <<phase, config, cycleCount, rateLimitErrorCount,
                        adaptiveInterval, sleepMs, activeRoutines, executionsThisCycle,
                        disp, fetchError,
                        cycleErrorType>>
  /\ UNCHANGED <<disk, now, options, diskWritable, retry, suggested, command>>

\* the startup refresh (updateRoutinePriorities of autonomous-mode.ts), then
\* the first turn of the loop: cycleCount++ and the catalog request
StartupRefresh ==
  /\ phase = "Idle"
  /\ \E resp \in FetchResponses, writeOk \in WriteOutcomes :
       LET routines == fetchActiveRoutines(resp) IN
       IF routines.iterable /\ routines.items # <<>>
         THEN /\ config' = updateRoutinePriorities(config, routines.items)
              /\ disk' = saveConfig(config', disk, writeOk)
         ELSE UNCHANGED <<config, disk>>
  /\ IF isRunning
       THEN cycleCount' = cycleCount + 1 /\ phase' = "FetchingRoutines"
       ELSE cycleCount' = cycleCount /\ phase' = "Returned"
  /\ UNCHANGED <<retry, suggested, command, diskWritable, cancelledFrom, now, options, isRunning, rateLimitErrorCount, adaptiveInterval,
                 sleepMs, activeRoutines, executionsThisCycle, disp, fetchError, cycleErrorType>>

\* executionsThisCycle.map(executeRoutine) when the batch is not empty,
\* the end of the cycle otherwise
StartDispatch(batch) ==
  IF batch # <<>>
    THEN /\ disp' = [i \in 1..Len(batch) |-> NewDispatch(batch[i])]
         /\ phase' = "Dispatching"
         /\ UNCHANGED <<rateLimitErrorCount, adaptiveInterval, sleepMs, cycleErrorType>>
    ELSE /\ disp' = <<>>
         /\ FinishCycle

\* the catalog answers: the empty-list path, the reconcile, or the throw of
\* the reconcile over data that is no list
FetchReturns ==
  /\ phase = "FetchingRoutines"
  /\ \E resp \in FetchResponses, writeOk \in WriteOutcomes :
       LET routines == fetchActiveRoutines(resp) IN
       /\ fetchError' = resp.error
       /\ IF routines.thrown
            THEN /\ CatchCycleError(routines.error)
                 /\ UNCHANGED <<config, disk, activeRoutines, executionsThisCycle,
                                disp>>
          ELSE IF routines.iterable /\ EmptyCatalog(routines.items)
            THEN /\ phase' = "Sleeping"
                 /\ sleepMs' = options.interval * MsPerSecond
                 /\ UNCHANGED <<config, disk, activeRoutines,
                                executionsThisCycle, disp, rateLimitErrorCount,
                                adaptiveInterval, cycleErrorType>>
          ELSE IF ~routines.iterable
            THEN /\ CatchCycleError(TypeError)
                 /\ UNCHANGED <<config, disk, activeRoutines, executionsThisCycle,
                                disp>>
          ELSE /\ config' = updateRoutinePriorities(config, routines.items)
               /\ disk' = saveConfig(config', disk, writeOk)
               /\ activeRoutines' = routines.items
               /\ executionsThisCycle' = <<>>
               /\ IF options.maxExecutionsPerCycle > 0
                    THEN /\ phase' = "SelectingBatch"
                         /\ disp' = <<>>
                         /\ UNCHANGED <<rateLimitErrorCount, adaptiveInterval, sleepMs,
                                        cycleErrorType>>
                    ELSE StartDispatch(<<>>)
  /\ UNCHANGED <<retry, suggested, command, diskWritable, cancelledFrom, now, options, isRunning, cycleCount>>

\* one turn of the batch-building loop; the turn that ends the loop also
\* starts the dispatches.  The first call reads the clock as the catalog
\* answered
SelectStep ==
  /\ phase = "SelectingBatch"
  /\ \E d \in IF executionsThisCycle = <<>> THEN {0} ELSE ElapsedChoices,
        u \in 0..(DrawSteps - 1), writeOk \in WriteOutcomes :
       LET t == now + d
           selected == selectRoutineToExecute(config, activeRoutines, t, u)
           batch == IF selected = None THEN executionsThisCycle
                    ELSE Append(executionsThisCycle, selected)
       IN /\ now' = t
          /\ executionsThisCycle' = batch
          /\ IF selected = None
               THEN UNCHANGED <<config, disk>>
               ELSE /\ config' = recordExecution(config, selected, TRUE, t)
                    /\ disk' = IF RecordSaves(config, selected)
                                 THEN saveConfig(config', disk, writeOk) ELSE disk
          /\ IF selected = None \/ Len(batch) >= options.maxExecutionsPerCycle
               THEN StartDispatch(batch)
               ELSE UNCHANGED <<phase, disp, rateLimitErrorCount, adaptiveInterval,
                                sleepMs, cycleErrorType>>
          /\ activeRoutines' = IF batch = <<>> THEN <<>> ELSE activeRoutines
  /\ UNCHANGED <<retry, suggested, command, diskWritable, cancelledFrom, options, isRunning, cycleCount, fetchError>>

\* the generation backend answers dispatch i: executeWithRetry returns,
\* throws or sleeps and calls again; unless it retries, the rest of
\* executeRoutine runs up to the history request
BackendReplies(i) ==
  /\ phase \notin {"Cancelled"}
  /\ i \in DOMAIN disp
  /\ disp[i].st = "calling"
  /\ \E out \in BackendOutcomes :
       LET result == IF options.useGeminiDirect
                       THEN generateContent(out) ELSE getLLMResponseFromAPI(out)
           decision == RetryDecision(result, disp[i].attempt, DispatchRetryOptions)
       IN IF decision = "retry"
            THEN \E j \in 0..(JitterSteps - 1) :
                 /\ disp' = [disp EXCEPT ![i].attempt = @ + 1, ![i].calls = @ + 1,
                                         ![i].reply = out]
                 /\ now' = now + calculateDelay(disp[i].attempt, DispatchRetryOptions,
                                                result.error, j)
                 /\ UNCHANGED <<config, disk>>
            ELSE \E fileOk \in IF result.content = "json" THEN BOOLEAN ELSE {TRUE},
                    writeOk \in WriteOutcomes :
                 LET outcome == executeRoutineOutcome(result, decision, fileOk) IN
                 /\ disp' = [disp EXCEPT ![i].st = "reporting", ![i].calls = @ + 1,
                                         ![i].reply = out,
                                         ![i].errorType = outcome.errorType,
                                         ![i].success = outcome.success]
                 /\ now' = now
                 /\ config' = recordExecution(config, disp[i].routineId,
                                              outcome.success, now)
                 /\ disk' = IF RecordSaves(config, disp[i].routineId)
                              THEN saveConfig(config', disk, writeOk) ELSE disk
  /\ UNCHANGED <<retry, suggested, command, diskWritable, cancelledFrom, options, phase, isRunning, cycleCount, rateLimitErrorCount,
                 adaptiveInterval, sleepMs, activeRoutines, executionsThisCycle, fetchError, cycleErrorType>>

\* executionHistory.recordExecution ends (it catches its own failures) and
\* the promise of dispatch i settles
HistoryRecorded(i) ==
  /\ phase \notin {"Cancelled"}
  /\ i \in DOMAIN disp
  /\ disp[i].st = "reporting"
  /\ disp' = [disp EXCEPT ![i] = [NewDispatch(@.routineId) EXCEPT !.st = "settled"]]
  /\ UNCHANGED <<retry, suggested, command, diskWritable, cancelledFrom, config, disk, now, options, phase, isRunning, cycleCount,
                 rateLimitErrorCount, adaptiveInterval, sleepMs, activeRoutines,
                 executionsThisCycle,
                 fetchError, cycleErrorType>>

\* Promise.allSettled resolves: the end of the try block
AllSettled ==
  /\ phase = "Dispatching"
  /\ BatchSettled(disp)
  /\ FinishCycle
  /\ EndOfTurn
  /\ disp' = SelectSeq(disp, LAMBDA e : e.st # "settled")
  /\ UNCHANGED <<retry, suggested, command, diskWritable, cancelledFrom, config, disk, now, options, isRunning, cycleCount, fetchError>>

\* the sleep ends: the loop condition, cycleCount++ and the catalog request
SleepElapsed ==
  /\ phase = "Sleeping"
  /\ cycleCount < MaxCycles
  /\ now' = now + sleepMs
  /\ sleepMs' = 0
  /\ IF isRunning
       THEN cycleCount' = cycleCount + 1 /\ phase' = "FetchingRoutines"
       ELSE cycleCount' = cycleCount /\ phase' = "Returned"
  /\ fetchError' = NoError
  /\ cycleErrorType' = None
  /\ UNCHANGED <<retry, suggested, command, diskWritable, cancelledFrom, config, disk, options, isRunning, rateLimitErrorCount,
                 adaptiveInterval, activeRoutines, executionsThisCycle, disp>>

Next ==
  \/ Sigint
  \/ StartupRefresh
  \/ FetchReturns
  \/ SelectStep
  \/ \E i \in DOMAIN disp : BackendReplies(i)
  \/ \E i \in DOMAIN disp : HistoryRecorded(i)
  \/ AllSettled
  \/ SleepElapsed

Spec == Init /\ [][Next]_vars

\* the positions a batch can have
DispatchSlots == UNION {1..m : m \in MaxExecutionsChoices}

\* The event loop runs every callback that is ready.  The requests of
\* ApiClient end within its 10 s timeout and timers fire; the request of
\* the Gemini SDK has no timeout, so nothing makes it answer.  Nobody has
\* to send SIGINT.
FairSpec ==
  /\ Spec
  /\ WF_vars(StartupRefresh)
  /\ WF_vars(FetchReturns)
  /\ WF_vars(SelectStep)
  /\ \A i \in DispatchSlots :
       /\ WF_vars(~options.useGeminiDirect /\ BackendReplies(i))
       /\ WF_vars(HistoryRecorded(i))
  /\ WF_vars(AllSettled)
  /\ WF_vars(SleepElapsed)

----------------------------------------------------------------------------
\* A call of RateLimitHandler.executeWithRetry on its own

MaxRetriesChoices == {0, 1, 2, 3}
BaseDelayChoices == {1000, 2000}
MaxDelayChoices == {5000, 60000}
MultiplierChoices == {1, 2, 3}

\* { ...defaultOptions, ...options }
RetryConfigs ==
  {[defaultOptions EXCEPT !.maxRetries = m, !.baseDelay = b, !.maxDelay = x,
                          !.backoffMultiplier = k] :
     m \in MaxRetriesChoices, b \in BaseDelayChoices, x \in MaxDelayChoices,
     k \in MultiplierChoices}

\* seconds of the retryAfter hint of a response; 0 is no hint
RetryAfterChoices == {0, 1, 70}

\* failures of an operation: three the classifier takes for a rate limit (by
\* status, by the body of the response with its hint, by the message text)
\* and four it does not (validation, authentication, not found, network)
RateLimitFailures ==
  {Err(429, None, None, 0, {"status"})}
    \cup {Err(0, None, "RATE_LIMIT_EXCEEDED", h, {"body"}) : h \in RetryAfterChoices}
    \cup {Err(0, None, None, 0, {"Too Many Requests"})}
PermanentFailures ==
  {Err(400, None, "VALIDATION_ERROR", 0, {"validation"}),
   Err(401, None, None, 0, {"unauthorized"}),
   Err(404, None, None, 0, {"not found"}),
   Err(0, "ECONNREFUSED", None, 0, {"connect"})}

OperationOutcomes ==
  {[thrown |-> FALSE, error |-> NoError]}
    \cup {[thrown |-> TRUE, error |-> e] : e \in RateLimitFailures \cup PermanentFailures}

\* the frame of a call: `config`, the loop variable `attempt`, and what the
\* call has done so far (the outcomes of operation(), the delays slept)
NewRetry(retryConfig) ==
  [status |-> "calling", config |-> retryConfig, attempt |-> 0,
   outcomes |-> <<>>, delays |-> <<>>, error |-> NoError]

RetryInit ==
  /\ retry \in {NewRetry(c) : c \in RetryConfigs}
  /\ suggested = NoSuggestion
  /\ command = NoCommand
  /\ LoopAtRest

\* operation() ends: the try returns its value, or the catch rethrows, or
\* it computes the delay and sleeps
OperationEnds ==
  /\ retry.status = "calling"
  /\ \E out \in OperationOutcomes :
       LET decision == RetryDecision(out, retry.attempt, retry.config)
           called == [retry EXCEPT !.outcomes = Append(@, out)]
       IN CASE decision = "return" ->
                 retry' = [called EXCEPT !.status = "returned"]
            [] decision = "throw" ->
                 retry' = [called EXCEPT !.status = "thrown", !.error = out.error]
            [] OTHER ->
                 \E j \in 0..(JitterSteps - 1) :
                   retry' = [called EXCEPT
                               !.status = "sleeping",
                               !.delays = Append(@, calculateDelay(retry.attempt,
                                                      retry.config, out.error, j))]
  /\ UNCHANGED <<suggested, command, config, disk, now, diskWritable, loopVars>>

\* the timer of sleep(delay) fires: attempt++ and the next turn of the loop
RetrySleepEnds ==
  /\ retry.status = "sleeping"
  /\ retry' = [retry EXCEPT !.status = "calling", !.attempt = @ + 1]
  /\ UNCHANGED <<suggested, command, config, disk, now, diskWritable, loopVars>>

RetryNext == OperationEnds \/ RetrySleepEnds

RetrySpec == RetryInit /\ [][RetryNext]_vars

\* the operation ends and timers fire
FairRetrySpec == RetrySpec /\ WF_vars(OperationEnds) /\ WF_vars(RetrySleepEnds)

----------------------------------------------------------------------------
\* Calls of RateLimitHandler.suggestOptimalInterval on their own: one
\* interval, asked for a growing number of errors

MaxErrorCount == 8

\* seconds
SuggestIntervals == 1..120

SuggestInit ==
  /\ suggested \in {[status |-> "asked", errorCount |-> 0, currentInterval |-> i,
                     result |-> 0, previous |-> 0] : i \in SuggestIntervals}
  /\ retry = NoRetry
  /\ command = NoCommand
  /\ LoopAtRest

\* the call returns
SuggestReturns ==
  /\ suggested.status = "asked"
  /\ suggested' = [suggested EXCEPT
                     !.status = "answered",
                     !.result = suggestOptimalInterval(suggested.errorCount,
                                                       suggested.currentInterval),
                     !.previous = suggested.result]
  /\ UNCHANGED <<retry, command, config, disk, now, diskWritable, loopVars>>

\* the next call, with one error more
SuggestAgain ==
  /\ suggested.status = "answered"
  /\ suggested.errorCount < MaxErrorCount
  /\ suggested' = [suggested EXCEPT !.status = "asked", !.errorCount = @ + 1]
  /\ UNCHANGED <<retry, command, config, disk, now, diskWritable, loopVars>>

SuggestNext == SuggestReturns \/ SuggestAgain

SuggestSpec == SuggestInit /\ [][SuggestNext]_vars

----------------------------------------------------------------------------
\* The methods of RoutineManager on the store, called one after the other
\* (the priority command, the reconcile and the records of the loop), with
\* a working directory that stops and starts accepting writes

MaxStoreCommands == 4

\* lists of routine ids; one repeats an id
StoreCatalogs == {<<>>, <<"r1">>, <<"r2">>, <<"r1", "r2">>, <<"r1", "r1">>}

\* "r3" never has an entry
StoreIds == {"r1", "r2", "r3"}

\* parseInt(priority): below the range, inside, above, no number
PriorityInputs == {0, 8, 15, NaN}

\* parseFloat(weight), in tenths: 0.0, 1.5, 6.0, no number
WeightInputs == {0, 15, 60, NaN}

Command(op, routineId, value, routines, returned) ==
  [op |-> op, routineId |-> routineId, value |-> value, routines |-> routines,
   returned |-> returned, seq |-> command.seq + 1]

StoreInit ==
  /\ command = [op |-> "none", routineId |-> None, value |-> 0, routines |-> <<>>,
                returned |-> FALSE, seq |-> 0]
  /\ retry = NoRetry
  /\ suggested = NoSuggestion
  /\ LoopAtRest

\* the working directory stops or starts accepting writes
DiskChanges ==
  /\ diskWritable' = ~diskWritable
  /\ UNCHANGED <<command, retry, suggested, config, disk, now, loopVars>>

Reconcile ==
  /\ command.seq < MaxStoreCommands
  /\ \E routines \in StoreCatalogs :
       /\ config' = updateRoutinePriorities(config, routines)
       /\ disk' = saveConfig(config', disk, diskWritable)
       /\ command' = Command("updateRoutinePriorities", None, 0, routines, TRUE)
  /\ UNCHANGED <<retry, suggested, now, diskWritable, loopVars>>

Record ==
  /\ command.seq < MaxStoreCommands
  /\ \E routineId \in StoreIds, success \in BOOLEAN :
       /\ config' = recordExecution(config, routineId, success, now)
       /\ disk' = IF RecordSaves(config, routineId)
                    THEN saveConfig(config', disk, diskWritable) ELSE disk
       /\ command' = Command("recordExecution", routineId,
                             IF success THEN 1 ELSE 0, <<>>, TRUE)
  /\ UNCHANGED <<retry, suggested, now, diskWritable, loopVars>>

AdjustPriority ==
  /\ command.seq < MaxStoreCommands
  /\ \E routineId \in StoreIds, newPriority \in PriorityInputs :
       /\ config' = adjustPriority(config, routineId, newPriority)
       /\ disk' = IF AdjustFinds(config, routineId)
                    THEN saveConfig(config', disk, diskWritable) ELSE disk
       /\ command' = Command("adjustPriority", routineId, newPriority, <<>>,
                             AdjustFinds(config, routineId))
  /\ UNCHANGED <<retry, suggested, now, diskWritable, loopVars>>

AdjustWeight ==
  /\ command.seq < MaxStoreCommands
  /\ \E routineId \in StoreIds, newWeight \in WeightInputs :
       /\ config' = adjustWeight(config, routineId, newWeight)
       /\ disk' = IF AdjustFinds(config, routineId)
                    THEN saveConfig(config', disk, diskWritable) ELSE disk
       /\ command' = Command("adjustWeight", routineId, newWeight, <<>>,
                             AdjustFinds(config, routineId))
  /\ UNCHANGED <<retry, suggested, now, diskWritable, loopVars>>

StoreNext == DiskChanges \/ Reconcile \/ Record \/ AdjustPriority \/ AdjustWeight

StoreSpec == StoreInit /\ [][StoreNext]_vars

----------------------------------------------------------------------------
\* One call of selectRoutineToExecute on a store of three routines, with a
\* finer draw than the cycle loop uses

FineDraws == 20

ScenarioPriorities == {2, 5, 8}

\* never run, or run at time 0
ScenarioLastExecuted == {Never, 0}

\* the clock of the call: one minute, the cooldown to the millisecond, one
\* millisecond more, two hours
ScenarioClocks == {60000, 300000, 300001, 7200000}

ScenarioCatalogs == {<<"A", "B", "C">>, <<"C", "B", "A">>}

ScenarioEntry(routineId, priority, lastExecuted, successRate) ==
  [NewPriority(routineId) EXCEPT !.priority = priority,
                                 !.lastExecuted = lastExecuted,
                                 !.executionCount = IF lastExecuted = Never THEN 0 ELSE 1,
                                 !.successRate = successRate]

SelectInit ==
  /\ \E pa \in ScenarioPriorities, pb \in ScenarioPriorities, pc \in ScenarioPriorities,
        la \in ScenarioLastExecuted, lb \in ScenarioLastExecuted,
        lc \in ScenarioLastExecuted, rate \in {RateScale, 0} :
       config = [DefaultConfig(300) EXCEPT !.priorities =
                   <<ScenarioEntry("A", pa, la, RateScale),
                     ScenarioEntry("B", pb, lb, RateScale),
                     ScenarioEntry("C", pc, lc, rate)>>]
  /\ disk = config
  /\ now \in ScenarioClocks
  /\ activeRoutines \in ScenarioCatalogs
  /\ command = [op |-> "none", draw |-> 0, returned |-> None, fallback |-> FALSE]
  /\ diskWritable = TRUE
  /\ options = [interval |-> 60, maxExecutionsPerCycle |-> 3, useGeminiDirect |-> FALSE]
  /\ phase = "SelectingBatch"
  /\ isRunning = TRUE
  /\ cycleCount = 1
  /\ rateLimitErrorCount = 0
  /\ adaptiveInterval = options.interval
  /\ sleepMs = 0
  /\ executionsThisCycle = <<>>
  /\ disp = <<>>
  /\ fetchError = NoError
  /\ cycleErrorType = None
  /\ cancelledFrom = None
  /\ retry = NoRetry
  /\ suggested = NoSuggestion

\* routineManager.selectRoutineToExecute(activeRoutines) returns
SelectOne ==
  /\ command.op = "none"
  /\ \E u \in 0..(FineDraws - 1) :
       LET selected == SelectWithDraw(config, activeRoutines, now, u, FineDraws) IN
       command' = [op |-> "selectRoutineToExecute", draw |-> u,
                   returned |-> selected.routine, fallback |-> selected.fallback]
  /\ UNCHANGED <<config, disk, now, diskWritable, retry, suggested, loopVars>>

SelectNext == SelectOne

SelectSpec == SelectInit /\ [][SelectNext]_vars

----------------------------------------------------------------------------
\* One cycle from its reconcile to its sleep, on a store that earlier cycles
\* have written: the batch-building loop, the dispatches and their records.
\* The store as it was when the cycle began is kept aside.

\* what an entry holds before the cycle: never dispatched, or dispatched
\* once in an earlier cycle (two records each), with a success or a failure
EarlierRuns ==
  {[executionCount |-> 0, successRate |-> RateScale, lastExecuted |-> Never],
   [executionCount |-> 2, successRate |-> RateScale, lastExecuted |-> 0],
   [executionCount |-> 2,
    successRate |-> UpdatedSuccessRate(UpdatedSuccessRate(RateScale, TRUE), FALSE),
    lastExecuted |-> 0]}

EarlierEntry(routineId, run) ==
  [NewPriority(routineId) EXCEPT !.executionCount = run.executionCount,
                                 !.successRate = run.successRate,
                                 !.lastExecuted = run.lastExecuted]

\* the clock when the cycle selects: the earlier cycle and its sleep are
\* over, every cooldown has passed
BatchClock == 61000

CycleStart ==
  /\ activeRoutines \in Catalogs
  /\ \E cooldownPeriod \in CooldownChoices,
        runs \in [1..Len(activeRoutines) -> EarlierRuns] :
       config = [DefaultConfig(cooldownPeriod) EXCEPT !.priorities =
                   [k \in 1..Len(activeRoutines) |->
                      EarlierEntry(activeRoutines[k], runs[k])]]
  /\ disk = config
  /\ now = BatchClock
  /\ diskWritable = TRUE
  /\ options \in [interval : IntervalChoices,
                  maxExecutionsPerCycle : MaxExecutionsChoices,
                  useGeminiDirect : BOOLEAN]
  /\ phase = "SelectingBatch"
  /\ isRunning = TRUE
  /\ cycleCount = MaxCycles
  /\ rateLimitErrorCount = 0
  /\ adaptiveInterval = options.interval
  /\ sleepMs = 0
  /\ executionsThisCycle = <<>>
  /\ disp = <<>>
  /\ fetchError = NoError
  /\ cycleErrorType = None
  /\ cancelledFrom = None
  /\ retry = NoRetry
  /\ suggested = NoSuggestion

BatchInit ==
  /\ CycleStart
  /\ command = [op |-> "cycle", before |-> config]

BatchNext ==
  \/ SelectStep
  \/ \E i \in DOMAIN disp : BackendReplies(i)
  \/ \E i \in DOMAIN disp : HistoryRecorded(i)
  \/ AllSettled

BatchSpec == BatchInit /\ [][BatchNext]_vars

\* the entry of a routine in a store, and how often a batch holds it
EntryOf(cfg, routineId) == cfg.priorities[FindPriority(cfg.priorities, routineId)]

TimesInBatch(batch, routineId) ==
  Cardinality({k \in 1..Len(batch) : batch[k] = routineId})

----------------------------------------------------------------------------
\* The programs that reconcile after a catalog request, started on a store
\* that holds adjusted and learned entries: `aireer priority` (--show or no
\* option) and the autonomous mode up to the reconcile of its first cycle

\* the entries of r1 and r2 as the operator and earlier runs left them
KeptStores ==
  {[DefaultConfig(300) EXCEPT !.priorities =
      <<[EarlierEntry("r1", run) EXCEPT !.priority = p, !.weight = w],
        EarlierEntry("r2", run2)>>] :
     run \in EarlierRuns, run2 \in EarlierRuns, p \in {5, 8}, w \in {10, 15}}

ShowInit ==
  /\ config \in KeptStores
  /\ disk = config
  /\ now = BatchClock
  /\ diskWritable \in BOOLEAN
  /\ command = [op |-> "none", fetch |-> NoFetch]
  /\ options = [interval |-> 60, maxExecutionsPerCycle |-> 3, useGeminiDirect |-> FALSE]
  /\ phase = "Idle"
  /\ isRunning = TRUE
  /\ cycleCount = 0
  /\ rateLimitErrorCount = 0
  /\ adaptiveInterval = options.interval
  /\ sleepMs = 0
  /\ activeRoutines = <<>>
  /\ executionsThisCycle = <<>>
  /\ disp = <<>>
  /\ fetchError = NoError
  /\ cycleErrorType = None
  /\ cancelledFrom = None
  /\ retry = NoRetry
  /\ suggested = NoSuggestion

\* the action of the priority command with --show or without option: the
\* catalog request, the reconcile of whatever it returned, the display.
\* Data that is no list makes the reconcile throw before it changes anything
ShowPriorities ==
  /\ command.op = "none"
  /\ phase = "Idle"
  /\ \E resp \in FetchResponses :
       LET routines == fetchActiveRoutines(resp) IN
       /\ command' = [op |-> "priority --show", fetch |-> resp]
       /\ IF routines.iterable
            THEN /\ config' = updateRoutinePriorities(config, routines.items)
                 /\ disk' = saveConfig(config', disk, diskWritable)
            ELSE UNCHANGED <<config, disk>>
  /\ phase' = "Returned"
  /\ UNCHANGED <<now, diskWritable, retry, suggested, options, isRunning, cycleCount,
                 rateLimitErrorCount, adaptiveInterval, sleepMs, activeRoutines,
                 executionsThisCycle, disp, fetchError, cycleErrorType, cancelledFrom>>

ShowNext == ShowPriorities \/ StartupRefresh \/ FetchReturns

ShowSpec == ShowInit /\ [][ShowNext]_vars

----------------------------------------------------------------------------
\* The priority command run in a second process while the loop is in a
\* cycle: both processes hold their own copy of the store and share the
\* document

\* what --set and --weight pass on: a priority, a weight in tenths
OperatorPriority == 8
OperatorWeight == 15

\* loadConfig: JSON.parse of the document
loadConfig(document) == document

SharedInit ==
  /\ CycleStart
  /\ command = [op |-> "none", routineId |-> None, value |-> 0, returned |-> FALSE]

\* `aireer priority --set id:8` or `--weight id:1.5` from start to end: the
\* constructor loads the document, the entry is adjusted in the command's
\* copy and the copy is written out
OperatorAdjusts ==
  /\ command.op = "none"
  /\ \E routineId \in Range(activeRoutines), op \in {"adjustPriority", "adjustWeight"} :
       LET loaded == loadConfig(disk)
           adjusted == IF op = "adjustPriority"
                         THEN adjustPriority(loaded, routineId, OperatorPriority)
                         ELSE adjustWeight(loaded, routineId, OperatorWeight)
       IN /\ disk' = IF AdjustFinds(loaded, routineId)
                       THEN saveConfig(adjusted, disk, diskWritable) ELSE disk
          /\ command' = [op |-> op, routineId |-> routineId,
                         value |-> IF op = "adjustPriority" THEN OperatorPriority
                                   ELSE OperatorWeight,
                         returned |-> AdjustFinds(loaded, routineId)]
  /\ UNCHANGED <<config, now, diskWritable, retry, suggested, loopVars>>

SharedNext == BatchNext \/ OperatorAdjusts

SharedSpec == SharedInit /\ [][SharedNext]_vars

\* the field an adjustment is about, in a store or a document
AdjustedField(cfg) ==
  IF command.op = "adjustPriority" THEN EntryOf(cfg, command.routineId).priority
  ELSE EntryOf(cfg, command.routineId).weight

----------------------------------------------------------------------------
\* One caught failure shown to the three places that decide whether it is a
\* rate limit: the catch block of the cycle, the catch block of a dispatch
\* and the retry handler.

ErrorStatuses == {0, 429, 500}
ErrorCodes == {None, "429", "ECONNREFUSED"}
ErrorMarkers == {"rate limit", "Rate Limit", "quota exceeded", "Too Many Requests", "429"}

ErrorShapes ==
  {Err(status, code, respError, 0, message) :
     status \in ErrorStatuses, code \in ErrorCodes,
     respError \in {None, "RATE_LIMIT_EXCEEDED"}, message \in SUBSET ErrorMarkers}

ClassifyInit ==
  /\ command \in {[op |-> "caught", error |-> error, cycle |-> FALSE,
                   dispatch |-> FALSE, handler |-> FALSE] : error \in ErrorShapes}
  /\ retry = NoRetry
  /\ suggested = NoSuggestion
  /\ LoopAtRest

Classify ==
  /\ command.op = "caught"
  /\ command' = [command EXCEPT
                   !.op = "classified",
                   !.cycle = cycleCatch(command.error, rateLimitErrorCount,
                                        adaptiveInterval).errorType = "RATE_LIMIT_ERROR",
                   !.dispatch = dispatchErrorType(command.error) = "RATE_LIMIT_ERROR",
                   !.handler = isRateLimitError(command.error)]
  /\ UNCHANGED <<config, disk, now, diskWritable, retry, suggested, loopVars>>

ClassifyNext == Classify

ClassifySpec == ClassifyInit /\ [][ClassifyNext]_vars

----------------------------------------------------------------------------
\* One cycle, as above, that the operator may interrupt while it waits for
\* its dispatches.

CancelInit == BatchInit

CancelNext == BatchNext \/ Sigint

CancelSpec == CancelInit /\ [][CancelNext]_vars

----------------------------------------------------------------------------
\* One dispatch from the answer of the generation backend to the finally
\* block of executeRoutine, on a store that earlier cycles have written.
\* Whether the file or command operation went through is kept with the
\* dispatch.

FinallyInit ==
  /\ config \in KeptStores
  /\ disk = config
  /\ now = BatchClock
  /\ diskWritable = TRUE
  /\ \E routineId \in {"r1", "r2"}, out \in BackendOutcomes, fileOk \in BOOLEAN :
       /\ out.kind # "json" => fileOk
       /\ command = [op |-> "executeRoutine", routineId |-> routineId, reply |-> out,
                     fileOk |-> fileOk, before |-> config,
                     success |-> FALSE, reported |-> FALSE]
  /\ options \in [interval : IntervalChoices,
                  maxExecutionsPerCycle : MaxExecutionsChoices,
                  useGeminiDirect : BOOLEAN]
  /\ phase = "Dispatching"
  /\ isRunning = TRUE
  /\ cycleCount = 1
  /\ rateLimitErrorCount = 0
  /\ adaptiveInterval = options.interval
  /\ sleepMs = 0
  /\ activeRoutines = <<"r1", "r2">>
  /\ executionsThisCycle = <<command.routineId>>
  /\ disp = <<>>
  /\ fetchError = NoError
  /\ cycleErrorType = None
  /\ cancelledFrom = None
  /\ retry = NoRetry
  /\ suggested = NoSuggestion

\* executeWithRetry returns, the response is parsed, the file or command
\* operation is run, and finally records the outcome in the store and
\* hands the report to the execution history
DispatchEnds ==
  /\ command.op = "executeRoutine"
  /\ LET result == IF options.useGeminiDirect
                     THEN generateContent(command.reply)
                     ELSE getLLMResponseFromAPI(command.reply)
         decision == RetryDecision(result, 0, DispatchRetryOptions)
         outcome == executeRoutineOutcome(result, decision, command.fileOk)
     IN /\ decision # "retry"
        /\ config' = recordExecution(config, command.routineId, outcome.success, now)
        /\ disk' = IF RecordSaves(config, command.routineId)
                     THEN saveConfig(config', disk, diskWritable) ELSE disk
        /\ command' = [command EXCEPT !.op = "recorded",
                                      !.success = outcome.success,
                                      !.reported = outcome.success]
  /\ UNCHANGED <<now, diskWritable, retry, suggested, loopVars>>

FinallyNext == DispatchEnds

FinallySpec == FinallyInit /\ [][FinallyNext]_vars

----------------------------------------------------------------------------
\* Properties of the cycle loop, the selector and the dispatches

\* C1: the batch of a cycle never holds the same routine id twice, for every
\* cooldownPeriod including 0.
C1_BatchHasNoDuplicate ==
  \A i, j \in DOMAIN executionsThisCycle :
    i # j => executionsThisCycle[i] # executionsThisCycle[j]

\* C2: a call of selectRoutineToExecute at time now' never returns a routine
\* whose entry has lastExecuted within cooldownPeriod seconds of that time,
\* and it returns a routine whenever some routine of the list has no
\* lastExecuted or one older than the cooldown.
C2_CooldownExclusion ==
  [][phase = "SelectingBatch" =>
       LET within(r) ==
             \E k \in DOMAIN config.priorities :
               /\ config.priorities[k].routineId = r
               /\ config.priorities[k].lastExecuted # Never
               /\ now' - config.priorities[k].lastExecuted
                    <= config.globalSettings.cooldownPeriod * 1000
           eligible == {r \in Range(activeRoutines) : ~within(r)}
       IN IF executionsThisCycle' = executionsThisCycle
            THEN eligible = {}
            ELSE /\ Len(executionsThisCycle') = Len(executionsThisCycle) + 1
                 /\ executionsThisCycle'[Len(executionsThisCycle')] \in eligible
  ]_vars

\* the second call of a pass left out the routine the first call returned,
\* which is in its cooldown, and returned the other one
C2_Witness ==
  /\ Len(executionsThisCycle) = 2
  /\ executionsThisCycle[1] # executionsThisCycle[2]
  /\ config.globalSettings.cooldownPeriod = 1
  /\ Len(activeRoutines) = 2

\* C3: a dispatch whose backend reply is empty, unparsable or a failure
\* leaves the loop in its dispatching phase and its siblings untouched, is
\* recorded as recordExecution(id, false), every sibling can still take its
\* own steps, and the cycle leaves the dispatching phase only for its sleep
\* (or by cancellation).
C3_FailureStaysInDispatch ==
  /\ [][\A i \in DOMAIN disp :
          (/\ i \in DOMAIN disp'
           /\ disp[i].st = "calling"
           /\ disp'[i].st = "reporting"
           /\ disp'[i].reply.kind # "json")
          => /\ phase' = phase
             /\ \A k \in DOMAIN disp : k # i => disp'[k] = disp[k]
             /\ \E e \in DOMAIN config.priorities :
                  /\ config.priorities[e].routineId = disp[i].routineId
                  /\ config'.priorities[e].executionCount
                       = config.priorities[e].executionCount + 1
                  /\ config'.priorities[e].successRate
                       = (4 * config.priorities[e].successRate) \div 5
                  /\ config'.priorities[e].lastExecuted = now
     ]_vars
  /\ [](\A k \in DOMAIN disp :
          /\ disp[k].st = "calling" /\ phase # "Cancelled" => ENABLED BackendReplies(k)
          /\ disp[k].st = "reporting" /\ phase # "Cancelled" => ENABLED HistoryRecorded(k))
  /\ [][phase = "Dispatching" /\ phase' # "Dispatching"
          => phase' \in {"Sleeping", "Cancelled"}]_vars

\* a dispatch has failed and its sibling has succeeded after it or before it
C3_Witness ==
  /\ phase = "Dispatching"
  /\ Len(disp) = 2
  /\ disp[1].st = "reporting" /\ ~disp[1].success
  /\ disp[2].st = "reporting" /\ disp[2].success

\* C4: the loop is cycling (fetching, selecting, dispatching, sleeping) or
\* has been cancelled by the stop signal; no error ends it, and only the
\* stop signal clears isRunning.
C4_OnlyCancellationEnds ==
  /\ phase \in {"Idle", "FetchingRoutines", "SelectingBatch", "Dispatching",
                "Sleeping", "Cancelled"}
  /\ isRunning = (phase # "Cancelled")
  /\ phase = "Sleeping" /\ cycleCount < MaxCycles => ENABLED SleepElapsed

\* the catch block of the cycle has caught an error in a run whose document
\* cannot be written, and the loop sleeps
C4_Witness ==
  /\ phase = "Sleeping"
  /\ cycleErrorType # None
  /\ ~diskWritable
  /\ cycleCount > 1

\* C5: a cycle whose catalog request failed with a rate-limit-shaped error
\* increments the rate limit counter and sleeps
\* suggestOptimalInterval(counter, interval), longer than the configured
\* interval.
C5_RateLimitedFetchBacksOff ==
  phase = "Sleeping" /\ isRateLimitCycle(fetchError)
    => /\ rateLimitErrorCount >= 1
       /\ sleepMs = adaptiveInterval * MsPerSecond
       /\ sleepMs > options.interval * MsPerSecond

\* a cycle's catalog request has failed with a rate-limit-shaped error and
\* the cycle sleeps
C5_Witness == phase = "Sleeping" /\ isRateLimitCycle(fetchError)

\* C6: a cycle that ends without a rate-limit-classified failure of the
\* cycle, the empty-catalog cycle and the cycle that failed with another
\* error included, sleeps with the rate limit counter at 0 and the adaptive
\* interval at the configured interval.
C6_CleanCycleEndsReset ==
  phase = "Sleeping" /\ cycleErrorType # "RATE_LIMIT_ERROR"
    => /\ rateLimitErrorCount = 0
       /\ adaptiveInterval = options.interval
       /\ sleepMs = options.interval * MsPerSecond

\* a cycle has failed with an error that is no rate limit, and sleeps
C6_Witness ==
  /\ phase = "Sleeping"
  /\ cycleErrorType \in {"LLM_API_ERROR", "NETWORK_ERROR", "UNKNOWN_ERROR"}

\* C7: a dispatch whose backend call failed with a rate-limit-shaped failure
\* is recorded as failed only after the call was made maxRetries + 1 times.
C7_RateLimitedCallRetried ==
  \A i \in DOMAIN disp :
    (/\ disp[i].st = "reporting"
     /\ disp[i].reply.kind = "error"
     /\ isRateLimitError(disp[i].reply.error))
    => disp[i].calls = DispatchRetryOptions.maxRetries + 1

\* C8: a cycle that is dispatching eventually starts the fetch of the next
\* cycle (or is cancelled), whether the backend answers or not.
C8_HungDispatchDoesNotStall ==
  (phase = "Dispatching" /\ cycleCount < MaxCycles)
    ~> (phase \in {"FetchingRoutines", "Cancelled"})

\* C9: while the loop sleeps, fetches or selects, no dispatch is in flight:
\* every dispatch of the last batch has settled, after its outcome was
\* recorded in the store.
C9_NoDispatchAcrossCycles ==
  phase \in {"Sleeping", "FetchingRoutines", "SelectingBatch"}
    => \A i \in DOMAIN disp : disp[i].st = "settled"

\* the fetch of the second cycle is under way after a batch of the first
\* cycle: a routine has its provisional and its real record
C9_Witness ==
  /\ phase = "FetchingRoutines"
  /\ cycleCount = 2
  /\ \E e \in DOMAIN config.priorities : config.priorities[e].executionCount >= 2

\* C10: in every state in which the program waits, the stop signal can be
\* taken; taking it ends in Cancelled in that one step, whatever sleep or
\* dispatch is pending; and from then on neither the store nor the document
\* changes.
C10_StopSignalCancels ==
  /\ [](phase \in {"Idle", "FetchingRoutines", "Dispatching", "Sleeping"}
          => ENABLED Sigint)
  /\ [][isRunning /\ ~isRunning' => phase' = "Cancelled"]_vars
  /\ [][~isRunning => disk' = disk /\ config' = config /\ phase' = phase]_vars

\* the stop signal arrived while dispatches were in flight
C10_Witness == phase = "Cancelled" /\ cancelledFrom = "Dispatching"

----------------------------------------------------------------------------
\* Properties of executeWithRetry and calculateDelay

\* C11: a call whose operation fails with a failure that is no rate limit
\* (validation, authentication, not found, network) invokes the operation
\* once, sleeps never and rethrows that failure, for every maxRetries.
C11_PermanentFailureNotRetried ==
  (/\ retry.outcomes # <<>>
   /\ retry.outcomes[1].thrown
   /\ retry.outcomes[1].error \in PermanentFailures)
  => /\ Len(retry.outcomes) = 1
     /\ retry.delays = <<>>
     /\ retry.status = "thrown"
     /\ retry.error = retry.outcomes[1].error

\* a call with three retries left has rethrown a failure that is no rate limit
C11_Witness ==
  /\ retry.status = "thrown"
  /\ retry.error \in PermanentFailures
  /\ retry.config.maxRetries = 3

C13_DelayCapped ==
  \A k \in DOMAIN retry.delays : retry.delays[k] <= retry.config.maxDelay

\* a delay was cut to maxDelay
C13_Witness ==
  \E k \in DOMAIN retry.delays :
    /\ retry.delays[k] = retry.config.maxDelay
    /\ retry.outcomes[k].error.retryAfter = 70

C15_SuggestedInterval ==
  suggested.status = "answered"
    => LET n == suggested.errorCount
           i == suggested.currentInterval
           tenths == IF 20 + 5 * n < 50 THEN 20 + 5 * n ELSE 50
       IN /\ n = 0 => suggested.result = i
          /\ n >= 1 => suggested.result = (i * tenths) \div 10
          /\ n = 3 /\ i = 60 => suggested.result = 210
          /\ suggested.result >= suggested.previous
          /\ suggested.result <= 5 * i

\* the call with three errors and an interval of 60 s has returned 210
C15_Witness ==
  /\ suggested.status = "answered"
  /\ suggested.errorCount = 3
  /\ suggested.currentInterval = 60
  /\ suggested.result = 210
  /\ suggested.previous = 180

----------------------------------------------------------------------------
\* Properties of the store of priorities

\* C16: after any sequence of recorded outcomes, starting from the initial
\* 1.0, the successRate of every entry is at least 0 and at most 1
C16_SuccessRateInUnitInterval ==
  \A k \in 1..Len(config.priorities) :
    /\ config.priorities[k].successRate >= 0
    /\ config.priorities[k].successRate <= RateScale

\* an entry after a failure, a success and a failure
C16_Witness ==
  /\ command.op = "recordExecution"
  /\ \E k \in 1..Len(config.priorities) :
       /\ config.priorities[k].executionCount = 3
       /\ config.priorities[k].successRate =
            UpdatedSuccessRate(UpdatedSuccessRate(
              UpdatedSuccessRate(RateScale, FALSE), TRUE), FALSE)
       /\ config.priorities[k].successRate \in 1..(RateScale - 1)

\* C17: after any adjustPriority or adjustWeight call, with any value the
\* command line can pass (below the range, above it, text that parses to
\* NaN), every entry's priority lies in 1..10 and its weight in 0.1..5.0;
\* adjustPriority(x, 15) stores 10
C17_AdjustedFieldsInRange ==
  /\ \A k \in 1..Len(config.priorities) :
       /\ config.priorities[k].priority \in 1..10
       /\ config.priorities[k].weight \in 1..50
  /\ \A k \in 1..Len(config.priorities) :
       /\ command.op = "adjustPriority"
       /\ command.routineId = config.priorities[k].routineId
       /\ command.value = 15
       => config.priorities[k].priority = 10

\* C18: after updateRoutinePriorities(routines) returns, for any store
\* before it and any list (one that repeats an id included), the store
\* holds exactly one entry for each id of the list and none for any other
\* id; the entries it created have priority 5, weight 1.0, executionCount
\* 0, successRate 1.0 and no lastExecuted; an empty list leaves no entry
\* and raises no error
C18_ReconcileMatchesInput ==
  [][ /\ command'.seq # command.seq
      /\ command'.op = "updateRoutinePriorities"
      => LET ids == Range(command'.routines)
             after == config'.priorities
         IN /\ \A id \in ids :
                 Cardinality({k \in 1..Len(after) : after[k].routineId = id}) = 1
            /\ \A k \in 1..Len(after) : after[k].routineId \in ids
            /\ \A k \in 1..Len(after) :
                 (\A j \in 1..Len(config.priorities) :
                    config.priorities[j].routineId # after[k].routineId)
                 => /\ after[k].priority = 5
                    /\ after[k].weight = 10
                    /\ after[k].executionCount = 0
                    /\ after[k].successRate = RateScale
                    /\ after[k].lastExecuted = Never
            /\ command'.routines = <<>> => after = <<>>
            /\ command'.returned ]_vars

\* a list that repeats an id, reconciled into a store that had entries
C18_Witness ==
  /\ command.op = "updateRoutinePriorities"
  /\ command.seq >= 3
  /\ command.routines = <<"r1", "r1">>
  /\ Len(config.priorities) = 1
  /\ config.priorities[1] = NewPriority("r1")

\* C19: updateRoutinePriorities is idempotent: called a second time with
\* the same list, nothing else in between, it leaves the store as the first
\* call left it
C19_ReconcileIdempotent ==
  [][ /\ command.op = "updateRoutinePriorities"
      /\ command'.op = "updateRoutinePriorities"
      /\ command'.seq # command.seq
      /\ command'.routines = command.routines
      => config' = config ]_vars

\* the second of two calls with the same list of two routines, on entries
\* that had been changed before the first
C19_Witness ==
  /\ command.op = "updateRoutinePriorities"
  /\ command.seq = 4
  /\ command.routines = <<"r1", "r2">>
  /\ Len(config.priorities) = 2
  /\ config.priorities[1].priority = 8
  /\ config.priorities[2] = NewPriority("r2")

\* C20: for an id with no entry, adjustPriority and adjustWeight return
\* false and recordExecution returns normally, and neither the store in
\* memory nor the persisted document changes; for an id with an entry,
\* adjustPriority and adjustWeight return true
C20_UnknownIdChangesNothing ==
  [][ /\ command'.seq # command.seq
      /\ command'.op \in {"adjustPriority", "adjustWeight", "recordExecution"}
      => LET known == \E k \in 1..Len(config.priorities) :
                        config.priorities[k].routineId = command'.routineId
         IN /\ ~known => /\ config' = config
                         /\ disk' = disk
                         /\ command'.op = "recordExecution" => command'.returned
                         /\ command'.op # "recordExecution" => ~command'.returned
            /\ known /\ command'.op # "recordExecution" => command'.returned ]_vars

\* a call for an id with no entry, made while the document is behind the
\* store in memory and the working directory accepts writes
C20_Witness ==
  /\ command.op \in {"adjustPriority", "adjustWeight", "recordExecution"}
  /\ \A k \in 1..Len(config.priorities) :
       config.priorities[k].routineId # command.routineId
  /\ config.priorities # <<>>
  /\ disk # config
  /\ diskWritable

\* C21: whenever a mutating store method (updateRoutinePriorities,
\* recordExecution, adjustPriority or adjustWeight on an id that has an
\* entry) returns and its write succeeded, the persisted document equals
\* the whole store in memory, entries and global settings: no mutation is
\* held back or batched
C21_DocumentFollowsStore ==
  [][ /\ command'.seq # command.seq
      /\ \/ command'.op = "updateRoutinePriorities"
         \/ \E k \in 1..Len(config.priorities) :
              config.priorities[k].routineId = command'.routineId
      /\ diskWritable
      => /\ disk' = config'
         /\ disk'.priorities = config'.priorities
         /\ disk'.globalSettings = config'.globalSettings ]_vars

----------------------------------------------------------------------------
\* Properties of the cycle on an empty or failed catalog request

\* C23: when the catalog request returns an empty list, the cycle
\* reconciles nothing, selects nothing, dispatches nothing, leaves the
\* store and its document as they are, and sleeps the configured interval,
\* whatever the adaptive interval is
C23_EmptyCatalogSleepsBase ==
  [][ /\ phase = "FetchingRoutines"
      /\ phase' # "Cancelled"
      /\ cycleErrorType' = None
      /\ activeRoutines' = <<>>
      => /\ phase' = "Sleeping"
         /\ sleepMs' = options.interval * MsPerSecond
         /\ config' = config
         /\ disk' = disk
         /\ executionsThisCycle' = <<>>
         /\ disp' = <<>>
         /\ now' = now ]_vars

\* the startup refresh created entries and the first cycle's catalog
\* request returned an empty list: no entry has been selected, the loop
\* sleeps
C23_Witness ==
  /\ phase = "Sleeping"
  /\ cycleErrorType = None
  /\ fetchError = NoError
  /\ sleepMs = options.interval * MsPerSecond
  /\ Len(config.priorities) = 2
  /\ \A k \in 1..Len(config.priorities) : config.priorities[k].lastExecuted = Never

\* C24: a failure of the catalog request (network, authentication, server,
\* rate limit) aborts at most the cycle it happens in: nothing is selected
\* or dispatched in that cycle, the loop sleeps, and after the sleep the
\* next cycle starts; the process does not end
C24_FailedFetchAbortsOnlyCycle ==
  /\ [](fetchError # NoError
          => /\ phase = "Sleeping"
             /\ isRunning
             /\ executionsThisCycle = <<>>
             /\ disp = <<>>
             /\ cycleCount < MaxCycles => ENABLED SleepElapsed)
  /\ [][ /\ fetchError # NoError
         /\ phase' # phase
         => \/ phase' = "Cancelled"
            \/ /\ phase' = "FetchingRoutines"
               /\ cycleCount' = cycleCount + 1
               /\ config' = config ]_vars

\* the catalog request of the second cycle has failed, after a first cycle
\* that dispatched
C24_Witness ==
  /\ fetchError \in ApiErrors
  /\ phase = "Sleeping"
  /\ cycleCount = 2
  /\ \E k \in 1..Len(config.priorities) : config.priorities[k].lastExecuted # Never

----------------------------------------------------------------------------
\* Properties of one weighted draw

\* C25: with A (priority 8, weight 1, successRate 1.0, never run), B
\* (priority 5, run one minute ago, cooldown 300 s) and C (priority 2,
\* weight 1, successRate 1.0, never run), the selector never returns B, the
\* weight of A is four times the weight of C, and A is returned for the
\* draws in the first 8/10 of the range, C for the rest
C25_ScenarioShares ==
  /\ config.priorities = <<ScenarioEntry("A", 8, Never, RateScale),
                           ScenarioEntry("B", 5, now - 60000, RateScale),
                           ScenarioEntry("C", 2, Never, RateScale)>>
  /\ config.globalSettings.cooldownPeriod = 300
  /\ activeRoutines = <<"A", "B", "C">>
  /\ command.op = "selectRoutineToExecute"
  => /\ command.returned # "B"
     /\ command.returned \in {"A", "C"}
     /\ ~command.fallback
     /\ SelectionWeight(config, "A", now) = 4 * SelectionWeight(config, "C", now)
     /\ command.returned = "A" <=> 10 * command.draw <= 8 * FineDraws
     /\ command.returned = "C" <=> 10 * command.draw > 8 * FineDraws

\* the scenario, with a draw in the last fifth of the range
C25_Witness ==
  /\ config.priorities = <<ScenarioEntry("A", 8, Never, RateScale),
                           ScenarioEntry("B", 5, now - 60000, RateScale),
                           ScenarioEntry("C", 2, Never, RateScale)>>
  /\ activeRoutines = <<"A", "B", "C">>
  /\ command.op = "selectRoutineToExecute"
  /\ command.returned = "C"

\* C26: the statement after the loop of the weighted draw, which returns
\* the last eligible routine, is never reached: for every non-empty set of
\* eligible routines and every draw in [0, total weight) the loop returns
C26_FallbackNotReached ==
  command.op = "selectRoutineToExecute"
    => /\ ~command.fallback
       /\ command.returned = None <=> FilterAvailable(config, activeRoutines, now) = <<>>

\* the largest draw over three eligible routines, one of them at the floor
\* weight: the loop returns at its last turn
C26_Witness ==
  /\ command.op = "selectRoutineToExecute"
  /\ command.draw = FineDraws - 1
  /\ Len(FilterAvailable(config, activeRoutines, now)) = 3
  /\ command.returned = "A"
  /\ activeRoutines = <<"C", "B", "A">>
  /\ SelectionWeight(config, "C", now) = MinimumWeight
  /\ ~command.fallback

----------------------------------------------------------------------------
\* Properties of the records of one cycle

\* C27: the real outcome supersedes the provisional mark: when a routine
\* that the batch holds once is recorded with its true outcome s, its
\* successRate is one step of the moving average from its value before the
\* cycle, 0.2 * s + 0.8 * successRate_before; the provisional success
\* contributes nothing
C27_RealOutcomeSupersedes ==
  [][\A i \in DOMAIN disp :
       (/\ i \in DOMAIN disp'
        /\ disp[i].st = "calling"
        /\ disp'[i].st = "reporting"
        /\ TimesInBatch(executionsThisCycle, disp[i].routineId) = 1)
       => EntryOf(config', disp[i].routineId).successRate
            = UpdatedSuccessRate(EntryOf(command.before, disp[i].routineId).successRate,
                                 disp'[i].success)]_vars

\* C28: executionCount is not counted twice: each entry's executionCount
\* grows by one for each dispatch of its routine, so when the cycle ends it
\* has grown by the number of times the routine was in the cycle's batch;
\* the provisional mark of the batch-building loop touches only the field
\* the cooldown reads
C28_CountedOncePerDispatch ==
  /\ [][phase = "Dispatching" /\ phase' = "Sleeping"
          => \A k \in 1..Len(config'.priorities) :
               config'.priorities[k].executionCount
                 = command.before.priorities[k].executionCount
                     + TimesInBatch(executionsThisCycle,
                                    config'.priorities[k].routineId)]_vars
  /\ [][phase = "SelectingBatch"
          => \A k \in 1..Len(config'.priorities) :
               /\ config'.priorities[k].executionCount
                    = config.priorities[k].executionCount
               /\ config'.priorities[k].successRate
                    = config.priorities[k].successRate]_vars

\* C29: for every routine placed in a batch exactly one real
\* recordExecution(id, success) is applied and exactly one report goes to
\* the execution history, both after the routine's own dispatch has
\* finished, whether it succeeded, returned nothing usable or failed; the
\* records of different members of a batch come in any order
C29_OneRecordOneReport ==
  /\ [][phase = "Dispatching" /\ config' # config
          => \E i \in DOMAIN disp :
               /\ disp[i].st = "calling"
               /\ disp'[i].st = "reporting"
               /\ disp'[i].success = (disp'[i].reply.kind = "json")
               /\ config' = recordExecution(config, disp[i].routineId,
                                            disp'[i].success, now)
               /\ \A k \in DOMAIN disp : k # i => disp'[k] = disp[k]]_vars
  /\ [][\A i \in DOMAIN disp :
          i \in DOMAIN disp' /\ disp'[i].st # disp[i].st
          => \/ /\ disp[i].st = "calling"
                /\ disp'[i].st = "reporting"
                /\ disp'[i].reply \in BackendOutcomes
                /\ config' # config
             \/ /\ disp[i].st = "reporting"
                /\ disp'[i].st = "settled"
                /\ config' = config]_vars
  /\ [][phase = "Dispatching" /\ phase' = "Sleeping"
          => /\ Len(disp) = Len(executionsThisCycle)
             /\ \A i \in DOMAIN disp :
                  /\ disp[i].routineId = executionsThisCycle[i]
                  /\ disp[i].st = "settled"
             /\ \A k \in 1..Len(config.priorities) :
                  config.priorities[k].executionCount
                    = command.before.priorities[k].executionCount
                        + 2 * TimesInBatch(executionsThisCycle,
                                           config.priorities[k].routineId)]_vars

\* the second member of the batch has been recorded as failed and
\* reported while the first has not been answered
C29_Witness ==
  /\ phase = "Dispatching"
  /\ Len(disp) = 2
  /\ disp[1].st = "calling"
  /\ disp[2].st = "settled"
  /\ EntryOf(config, disp[2].routineId).successRate
       < EntryOf(command.before, disp[2].routineId).successRate
  /\ disp[1].routineId # disp[2].routineId

----------------------------------------------------------------------------
\* Properties of the reconcile after a failed catalog request

\* C30: a catalog request that fails, and is answered with the empty list,
\* never makes an entry be deleted or reset: on every path that reconciles
\* after the request (the cycle, the startup refresh, the priority display
\* command) the priority, weight, successRate and executionCount of every
\* entry survive the failed request
C30_FailedFetchKeepsEntries ==
  /\ [][command'.op = "priority --show" /\ command.op = "none"
          /\ command'.fetch.kind = "error"
          => config'.priorities = config.priorities]_vars
  /\ [][phase = "FetchingRoutines" /\ fetchError' # NoError
          => config'.priorities = config.priorities]_vars
  /\ [][phase = "Idle" /\ phase' = "FetchingRoutines"
          => config' = config \/ config'.priorities # <<>>]_vars

----------------------------------------------------------------------------
\* Properties of the loop next to other processes and to its own end

\* C31: an adjustment of the operator is not lost to the running loop: when
\* the priority command has set an entry's priority or weight and written
\* it to the shared document, the value is still in the document after the
\* loop's next write and is the value the loop selects with
C31_AdjustmentSurvivesLoop ==
  /\ [][ /\ command.op \in {"adjustPriority", "adjustWeight"}
         /\ command.returned
         /\ disk' # disk
         => AdjustedField(disk') = command.value ]_vars
  /\ [][ /\ command.op \in {"adjustPriority", "adjustWeight"}
         /\ command.returned
         /\ phase = "SelectingBatch"
         /\ executionsThisCycle' # executionsThisCycle
         => AdjustedField(config) = command.value ]_vars

----------------------------------------------------------------------------
\* Properties of the rate-limit classifiers

\* C32: the catch block of the cycle, the catch block of a dispatch and
\* isRateLimitError give the same verdict on every caught failure, whatever
\* its status, its code, its response error marker and the letter case of
\* its message
C32_ClassifiersAgree ==
  command.op = "classified"
    => /\ command.cycle = command.handler
       /\ command.dispatch = command.handler

\* C33: the selection weight of an eligible routine is the product priority
\* x weight x successRate raised to the floor 0.1 and then multiplied by the
\* recency boost min(1 + 0.1 x hours since the last run, 3) when the entry
\* has a last run; it is never below 0.1
C33_FloorBeforeBoost ==
  command.op = "selectRoutineToExecute"
    => \A k \in 1..Len(config.priorities) :
         LET p == config.priorities[k]
             floored == Max(p.priority * p.weight * p.successRate, MinimumWeight \div 1000)
         IN OutOfCooldown(config, p.routineId, now)
              => /\ SelectionWeight(config, p.routineId, now)
                      = IF p.lastExecuted # Never
                          THEN floored * RecencyBoost(p.lastExecuted, now)
                          ELSE floored * 1000
                 /\ SelectionWeight(config, p.routineId, now) >= MinimumWeight

\* C34: selectRoutineToExecute returns none exactly when no routine of the
\* catalog is out of cooldown; otherwise it returns the first routine, in
\* the order of the eligible list, whose cumulative weight meets or exceeds
\* the draw, and that routine is one of the eligible routines
C34_FirstToMeetTheDraw ==
  command.op = "selectRoutineToExecute"
    => LET eligible == SelectSeq(activeRoutines, LAMBDA r : OutOfCooldown(config, r, now))
           total == SumWeights(config, eligible, now)
           Meets(k) == RandomAtMost(total, command.draw, FineDraws,
                                    SumWeights(config, SubSeq(eligible, 1, k), now))
       IN /\ command.returned = None <=> eligible = <<>>
          /\ eligible # <<>>
               => /\ command.returned \in Range(eligible)
                  /\ \E k \in 1..Len(eligible) :
                       /\ eligible[k] = command.returned
                       /\ Meets(k)
                       /\ \A j \in 1..(k - 1) : ~Meets(j)

\* one routine is in cooldown and the draw passes the first eligible routine
C34_Witness ==
  /\ command.op = "selectRoutineToExecute"
  /\ activeRoutines = <<"A", "B", "C">>
  /\ ~OutOfCooldown(config, "B", now)
  /\ OutOfCooldown(config, "A", now)
  /\ command.returned = "C"

\* C35: the records of the dispatches of one batch are serialized: in
\* whatever order the dispatches complete, each record is applied whole to
\* the store as the records before it left it, so that no executionCount
\* increment and no successRate update of another dispatch is lost, and the
\* document holds the whole store after each record, never a part of one
C35_RecordsSerialized ==
  /\ [](phase = "Dispatching"
          => \A k \in 1..Len(config.priorities) :
               config.priorities[k].executionCount
                 = command.before.priorities[k].executionCount
                     + TimesInBatch(executionsThisCycle, config.priorities[k].routineId)
                     + Cardinality({i \in DOMAIN disp :
                                      /\ disp[i].routineId = config.priorities[k].routineId
                                      /\ disp[i].st # "calling"}))
  /\ [][\A i \in DOMAIN disp :
          (/\ i \in DOMAIN disp'
           /\ disp[i].st = "calling"
           /\ disp'[i].st = "reporting")
          => /\ Len(config'.priorities) = Len(config.priorities)
             /\ config'.globalSettings = config.globalSettings
             /\ \A k \in 1..Len(config.priorities) :
                  IF config.priorities[k].routineId = disp[i].routineId
                    THEN config'.priorities[k] =
                           [config.priorities[k] EXCEPT
                              !.lastExecuted = now,
                              !.executionCount = @ + 1,
                              !.successRate = UpdatedSuccessRate(@, disp'[i].success)]
                    ELSE config'.priorities[k] = config.priorities[k]
             /\ disk' = Stringify(config')]_vars
  /\ [][phase = "Dispatching" /\ config' # config
          => Cardinality({i \in DOMAIN disp : disp'[i] # disp[i]}) = 1]_vars

\* both members of a batch of two routines have been recorded, the second
\* before the first, and the first as failed
C35_Witness ==
  /\ phase = "Dispatching"
  /\ Len(disp) = 2
  /\ disp[1].routineId # disp[2].routineId
  /\ disp[1].st = "reporting"
  /\ ~disp[1].success
  /\ disp[2].st = "settled"
  /\ EntryOf(command.before, disp[2].routineId).executionCount = 2

\* C36: the store never counts an abandoned dispatch: when the loop is
\* cancelled after a batch was selected and before the dispatch of one of
\* its routines has completed, the entry of that routine in the document
\* holds the executionCount, the successRate and the lastExecuted it had
\* before the cycle
C36_AbandonedNotCounted ==
  [][phase = "Dispatching" /\ phase' = "Cancelled"
       => \A i \in DOMAIN disp :
            (/\ disp[i].st = "calling"
             /\ TimesInBatch(executionsThisCycle, disp[i].routineId) = 1)
            => LET kept == EntryOf(disk', disp[i].routineId)
                   before == EntryOf(command.before, disp[i].routineId)
               IN /\ kept.executionCount = before.executionCount
                  /\ kept.successRate = before.successRate
                  /\ kept.lastExecuted = before.lastExecuted]_vars

----------------------------------------------------------------------------
\* Properties of the outcome of one dispatch

\* C37: a dispatch is recorded as successful only if its side effect was
\* applied: whenever the file or command operation fails, the outcome is
\* recorded with success = false, in the store and in the execution history
C37_FailedOperationRecordedFailed ==
  command.op = "recorded" /\ ~command.fileOk
    => /\ ~command.success
       /\ ~command.reported
       /\ EntryOf(config, command.routineId).successRate
            = UpdatedSuccessRate(EntryOf(command.before, command.routineId).successRate,
                                 FALSE)

----------------------------------------------------------------------------
\* Frame properties of the store

\* C38: recordExecution on a routine that has an entry changes only that
\* entry's lastExecuted (to the time of the call), its executionCount (by
\* one) and its successRate (by one step of the moving average); the
\* entry's priority and weight, every other entry and the global settings
\* are unchanged
C38_RecordChangesOnlyItsEntry ==
  [][(/\ command'.seq # command.seq
      /\ command'.op = "recordExecution"
      /\ \E k \in 1..Len(config.priorities) :
           config.priorities[k].routineId = command'.routineId)
     => /\ config'.globalSettings = config.globalSettings
        /\ Len(config'.priorities) = Len(config.priorities)
        /\ \A k \in 1..Len(config.priorities) :
             LET old == config.priorities[k]
                 new == config'.priorities[k]
             IN IF old.routineId = command'.routineId
                  THEN /\ new.routineId = old.routineId
                       /\ new.priority = old.priority
                       /\ new.weight = old.weight
                       /\ new.lastExecuted = now
                       /\ new.executionCount = old.executionCount + 1
                       /\ new.successRate
                            = UpdatedSuccessRate(old.successRate, command'.value = 1)
                  ELSE new = old]_vars

\* the entry of r1, whose priority the operator had raised to 8, has been
\* recorded next to the entry of r2
C38_Witness ==
  /\ command.op = "recordExecution"
  /\ command.routineId = "r1"
  /\ Len(config.priorities) = 2
  /\ EntryOf(config, "r1").priority = 8
  /\ EntryOf(config, "r1").executionCount = 1
  /\ EntryOf(config, "r1").lastExecuted = now

\* C39: updateRoutinePriorities keeps, for every id that had an entry and
\* is in the list, the entry as it was (priority, weight, lastExecuted,
\* executionCount, successRate), and it keeps the global settings
C39_ReconcileKeepsKnownEntries ==
  [][(/\ command'.seq # command.seq
      /\ command'.op = "updateRoutinePriorities")
     => /\ config'.globalSettings = config.globalSettings
        /\ \A j \in 1..Len(config.priorities) :
             config.priorities[j].routineId \in Range(command'.routines)
             => \E k \in 1..Len(config'.priorities) :
                  /\ config'.priorities[k].routineId = config.priorities[j].routineId
                  /\ config'.priorities[k].priority = config.priorities[j].priority
                  /\ config'.priorities[k].weight = config.priorities[j].weight
                  /\ config'.priorities[k].lastExecuted = config.priorities[j].lastExecuted
                  /\ config'.priorities[k].executionCount
                       = config.priorities[j].executionCount
                  /\ config'.priorities[k].successRate
                       = config.priorities[j].successRate]_vars

\* a reconcile with the list <<r1>> of a store in which r1 had been
\* adjusted to priority 8 and recorded once as failed
C39_Witness ==
  /\ command.op = "updateRoutinePriorities"
  /\ command.seq = 4
  /\ command.routines = <<"r1">>
  /\ Len(config.priorities) = 1
  /\ config.priorities[1].priority = 8
  /\ config.priorities[1].executionCount = 1
  /\ config.priorities[1].successRate = UpdatedSuccessRate(RateScale, FALSE)

----------------------------------------------------------------------------
\* Properties of the base of a delay

\* C40: when the failure carries a retryAfter hint, the base of the delay
\* is the larger of the hint (in ms) and the configured baseDelay, so a
\* hint below baseDelay never shortens the delay; the delay is the
\* exponential term base x multiplier^attempt plus a jitter between 0 and
\* 10% of that term, cut to maxDelay
C40_HintNeverShortens ==
  \A k \in DOMAIN retry.delays :
    LET hint == retry.outcomes[k].error.retryAfter * 1000
        factor == Pow(retry.config.backoffMultiplier, k - 1)
        base == IF hint = 0 THEN retry.config.baseDelay
                ELSE IF hint > retry.config.baseDelay THEN hint
                ELSE retry.config.baseDelay
        term == base * factor
    IN /\ \E jitter \in 0..(term \div 10) :
            retry.delays[k] = Min(term + jitter, retry.config.maxDelay)
       /\ retry.delays[k] >= Min(retry.config.baseDelay * factor, retry.config.maxDelay)

\* a failure with a hint of one second against a baseDelay of two: the
\* second delay, with jitter, is above the term of the configured base
C40_Witness ==
  /\ Len(retry.delays) >= 2
  /\ retry.config.baseDelay = 2000
  /\ retry.config.backoffMultiplier = 2
  /\ retry.outcomes[2].error.retryAfter = 1
  /\ retry.delays[2] > 4000
  /\ retry.delays[2] < retry.config.maxDelay

====
